---- MODULE Spec2Model ----
(***************************************************************************)
(* A model of iq-report-fetch: the bounded concurrent fetch-aggregate      *)
(* pipeline of IQReportService.GenerateLatestPolicyReport                  *)
(* (internal/services/iqreport.go) and the temp-file-plus-rename writer    *)
(* report.WriteCSV (internal/report/csvreport.go).                         *)
(*                                                                         *)
(* The specifications share the variables:                                 *)
(*   Spec       one run of GenerateLatestPolicyReport, one goroutine per   *)
(*              application, each task tracked by its own position;        *)
(*   SpecSem    the dispatch phase of a run over more applications than    *)
(*              the semaphore admits, the tasks (all running the same      *)
(*              closure) tracked by the number of tasks at each position;  *)
(*   SpecLive   the counted run followed to its return, under fairness;    *)
(*   SpecWrite  one call of WriteCSV with any rows and any old file at the *)
(*              destination, which the process may not survive (Kill);     *)
(*   SpecParse  one call of parseReportRows (internal/client/client.go);   *)
(*   SpecClient one call of NewClient (internal/client/client.go);         *)
(*   SpecTask   one task of a run from the return of GetLatestReportInfo,  *)
(*              whose outcome is held fixed, to the collector.             *)
(***************************************************************************)
EXTENDS Integers, Sequences, FiniteSets, TLC

\* ------------------------------------------------------------- bounds
\* Applications GetApplications may return in Spec.
MaxApps == 2
\* Rows GetPolicyViolations returns for an application that has violations.
MaxRows == 2
\* Tokens of a report URL.
MaxUrlLen == 2
\* Applications of the run SpecSem follows: more than the semaphore admits.
NumAppsSem == 11
\* Rows WriteCSV may be handed in SpecWrite.
MaxRowsWrite == 2
\* Components of a policy violation report, violations of a component,
\* constraints of a violation, in SpecParse.
MaxComponents == 2
MaxViolations == 2
MaxConstraints == 1
\* Tokens of a server URL, before an optional final "/", in SpecClient.
MaxServerUrlLen == 2

\* ---------------------------------------------------- program constants
\* sem := make(chan struct{}, 10)
SemCap == 10

\* --------------------------------------------------------------- values
\* A path of the file system holds no file, or a file with its records.
Absent == [exists |-> FALSE, content |-> <<>>]
File(c) == [exists |-> TRUE, content |-> c]
\* What the destination may hold before the run: a file that is not this run's.
OldFile == File(<< <<"old">> >>)
\* filepath.Join(s.cfg.OutputDir, filename)
Target == "OutputDir/filename"

VARIABLES
    \* GenerateLatestPolicyReport, the calling goroutine
    pc,               \* its position: start, orgs, launch, collect, write, done
    apps,             \* apps: the applications GetApplications returned
    orgIDToName,      \* the ID-to-name map built from GetOrganizations
    launched,         \* iterations of the launch loop done
    allViolationRows, \* the success accumulator
    errs,             \* the failure accumulator
    ret,              \* what the run returned: [path, err], Nil while running
    \* the concurrency primitives
    sem,              \* tokens in the sem channel
    wg,               \* the WaitGroup's counter
    resultsChan,      \* the buffered results channel
    closed,           \* whether resultsChan is closed
    closer,           \* the goroutine of wg.Wait(); close(resultsChan)
    cancelled,        \* whether ctx.Done() is closed
    \* the tasks of Spec, one per application
    tpc,              \* position of each task
    produced,         \* the AppReportResult each task built, Nil before
    \* the tasks of SpecSem, counted per position
    cnt,              \* number of tasks at each position
    nbuf,             \* number of results buffered in resultsChan
    \* WriteCSV and the file system
    wpc,              \* position in WriteCSV, idle outside a call
    wrows,            \* the rows argument
    dest,             \* content at the destination path, Absent if no file
    tmp,              \* content of the temp file on disk, Absent if no file
    wbuf,             \* records the csv.Writer holds and has not written out
    wi,               \* rows written so far
    werr,             \* the error WriteCSV returns
    \* history, for stating the properties only
    received,         \* how many results of each task the collector received
    calls,            \* the fetch calls begun: <<task, function>>
    lateAdmit,        \* tasks that found ctx cancelled at their admission select
    dest0,            \* what the destination held when WriteCSV was called
    killedAt,         \* position of WriteCSV when the process was killed
    \* one call that is followed (SpecParse, SpecClient, SpecTask)
    arg,              \* its arguments, or what it answers (SpecTask)
    result            \* what it returned or was called with, NotCalled before

mainVars == <<pc, apps, orgIDToName, launched, allViolationRows, errs, ret, received>>
syncVars == <<sem, wg, resultsChan, closed, closer>>
taskVars == <<tpc, produced, calls, lateAdmit>>
semVars == <<cnt, nbuf>>
fileVars == <<dest, tmp>>
writeVars == <<wpc, wrows, wbuf, wi, werr, dest0, killedAt>>
callVars == <<arg, result>>
vars == <<mainVars, syncVars, cancelled, taskVars, semVars, fileVars, writeVars, callVars>>

\* ----------------------------------------------------------- the data
\* client.Application: applications 1..n as the server lists them. The
\* internal ID and the public ID differ; organizations alternate.
Application(i) ==
    [ID |-> ToString(i), PublicID |-> ToString(100 + i),
     OrganizationID |-> IF i % 2 = 1 THEN "org-1" ELSE "org-2"]

AppList(n) == [i \in 1..n |-> Application(i)]

\* The client.Organization list the server answers with: it names the
\* organization of the odd applications and not that of the even ones.
OrgLists == { << [ID |-> "org-1", Name |-> "Acme"] >> }

\* What GetApplications returns: an error, or a list (possibly empty).
GetApplicationsOutcomes ==
    {[err |-> TRUE, apps |-> <<>>]}
        \cup {[err |-> FALSE, apps |-> AppList(n)] : n \in 0..MaxApps}

\* What GetOrganizations returns: an error, or a list.
GetOrganizationsOutcomes ==
    {[err |-> TRUE, orgs |-> <<>>]}
        \cup {[err |-> FALSE, orgs |-> l] : l \in OrgLists}

\* orgIDToName[org.ID] = org.Name for each org in turn: a later entry wins.
RECURSIVE BuildLookup(_)
BuildLookup(orgs) ==
    IF orgs = <<>> THEN << >>
    ELSE LET rest == BuildLookup(SubSeq(orgs, 1, Len(orgs) - 1))
             last == orgs[Len(orgs)]
         IN  [k \in DOMAIN rest \cup {last.ID} |->
                 IF k = last.ID THEN last.Name ELSE rest[k]]

\* A report URL is a sequence of tokens: a space, another character, or the
\* separator "/report/" as a whole.
UrlTokens == {" ", "a", "/report/"}
ReportURLs == UNION {[1..n -> UrlTokens] : n \in 0..MaxUrlLen}

\* Mutant of TrimSpaceIsEmpty: the URL is compared with "" untrimmed.
NotTrimmedIsEmpty(s) == s = <<>>

\* strings.TrimSpace(s) == "": s holds nothing but white space.
TrimSpaceIsEmpty(s) == \A k \in 1..Len(s) : s[k] = " "

\* Mutant of Cut: the URL is cut at its last separator.
CutLast(s) ==
    LET at == {k \in 1..Len(s) : s[k] = "/report/"}
    IN  IF at = {} THEN [found |-> FALSE, after |-> <<>>]
        ELSE LET k == CHOOSE x \in at : \A y \in at : x >= y
             IN  [found |-> TRUE, after |-> SubSeq(s, k + 1, Len(s))]

\* strings.Cut(s, "/report/"): what follows the first separator, and whether
\* there is one.
Cut(s) ==
    LET at == {k \in 1..Len(s) : s[k] = "/report/"}
    IN  IF at = {} THEN [found |-> FALSE, after |-> <<>>]
        ELSE LET k == CHOOSE x \in at : \A y \in at : x <= y
             IN  [found |-> TRUE, after |-> SubSeq(s, k + 1, Len(s))]

\* What GetLatestReportInfo returns: an error, nil (the report list is
\* empty), or the first report's info.
GetLatestReportInfoOutcomes ==
    {[err |-> TRUE, isNil |-> TRUE, ReportHTMLURL |-> <<>>],
     [err |-> FALSE, isNil |-> TRUE, ReportHTMLURL |-> <<>>]}
        \cup {[err |-> FALSE, isNil |-> FALSE, ReportHTMLURL |-> u] : u \in ReportURLs}

\* client.PolicyViolationReport as the server answers it. A report is given
\* by its shape: per component, per violation, the number of constraints.
\* Names tell the positions apart; a float64 threat level is held in tenths
\* (75 is 7.5), and the violations run through ThreatLevels.
ThreatLevels == <<75, 70, 5, 100>>

\* Constraint k, with (k % 3) conditions.
Constraint(k) ==
    [ConstraintName |-> "constraint-" \o ToString(k),
     Conditions |-> [j \in 1..(k % 3) |-> [ConditionSummary |-> "cond-" \o ToString(j)]]]

\* Violation v of component c, with n constraints.
Violation(c, v, n) ==
    [PolicyName |-> "policy-" \o ToString(v),
     PolicyThreatLevel |-> ThreatLevels[((c + v - 2) % Len(ThreatLevels)) + 1],
     Constraints |-> [k \in 1..n |-> Constraint(k)]]

\* Component c, its violations given by their numbers of constraints.
Component(c, shape) ==
    [DisplayName |-> "component-" \o ToString(c),
     Format |-> IF c % 2 = 1 THEN "maven" ELSE "pypi",
     Violations |-> [v \in 1..Len(shape) |-> Violation(c, v, shape[v])]]

PolicyViolationReport(shape) ==
    [Components |-> [c \in 1..Len(shape) |-> Component(c, shape[c])]]

\* Mutant of ToInt: the threat level is rounded to the nearest integer.
ToIntRound(x) == (x + 5) \div 10

\* int(x) of a float64 held in tenths: the fraction is dropped, toward zero.
ToInt(x) == IF x >= 0 THEN x \div 10 ELSE -((-x) \div 10)

\* strings.Join(elems, sep)
RECURSIVE Join(_, _)
Join(elems, sep) ==
    IF elems = <<>> THEN ""
    ELSE IF Len(elems) = 1 THEN elems[1]
    ELSE elems[1] \o sep \o Join(Tail(elems), sep)

\* rows = append(rows, ...) over nested loops: the lists in their order.
RECURSIVE Concat(_)
Concat(lists) ==
    IF lists = <<>> THEN <<>> ELSE Head(lists) \o Concat(Tail(lists))

\* parseReportRows: for each component, for each of its violations, for each
\* of its constraints, one row appended.
parseReportRows(rawReport, appPublicID, orgName) ==
    Concat([c \in 1..Len(rawReport.Components) |->
        LET comp == rawReport.Components[c]
        IN  Concat([n \in 1..Len(comp.Violations) |->
                LET v == comp.Violations[n]
                    threat == ToInt(v.PolicyThreatLevel)
                    policyAction == "Security-" \o ToString(threat)
                IN  [k \in 1..Len(v.Constraints) |->
                        LET constr == v.Constraints[k]
                            condSummaries ==
                                [j \in 1..Len(constr.Conditions) |->
                                    constr.Conditions[j].ConditionSummary]
                        IN  [Application |-> appPublicID,
                             Organization |-> orgName,
                             Policy |-> v.PolicyName,
                             Format |-> comp.Format,
                             Component |-> comp.DisplayName,
                             Threat |-> threat,
                             PolicyAction |-> policyAction,
                             ConstraintName |-> constr.ConstraintName,
                             Condition |-> Join(condSummaries, " | "),
                             CVE |-> ""]]])])

\* report.Row, as parseReportRows fills it for constraint j of a report of
\* one component with one violation.
Row(publicID, orgName, j) ==
    parseReportRows(PolicyViolationReport(<< <<j>> >>), publicID, orgName)[j]

\* What GetPolicyViolations returns: an error, or the rows parseReportRows
\* makes of the report received, which has no constraint or MaxRows of them.
GetPolicyViolationsOutcomes(publicID, orgName) ==
    {[err |-> TRUE, rows |-> <<>>]}
        \cup {[err |-> FALSE,
                rows |-> parseReportRows(PolicyViolationReport(<< <<n>> >>), publicID, orgName)]
                 : n \in {0, MaxRows}}

\* Mutant of OrgName: a missing ID reads the map's zero value, the empty
\* string.
OrgNameNoFallback(app) ==
    IF app.OrganizationID \in DOMAIN orgIDToName
    THEN orgIDToName[app.OrganizationID]
    ELSE ""

\* orgName, ok := orgIDToName[app.OrganizationID]; the ID when !ok.
OrgName(app) ==
    IF app.OrganizationID \in DOMAIN orgIDToName
    THEN orgIDToName[app.OrganizationID]
    ELSE app.OrganizationID

\* Mutant of ItemErr: the error names the public ID.
ItemErrPublicID(app, cause) == [app |-> app.PublicID, cause |-> cause]

\* An item error names the application's internal ID ("app %s: ...") and its
\* cause; NoItemErr is a nil Err.
NoItemErr == [app |-> "", cause |-> "nil"]
ItemErr(app, cause) == [app |-> app.ID, cause |-> cause]

\* AppReportResult. The Go value holds Rows and Err; task names the task that
\* built it and is history only. NoResult: the task has built none.
AppReportResult(i, rows, err) == [task |-> i, Rows |-> rows, Err |-> err]
NoResult == AppReportResult(0, <<>>, NoItemErr)

\* The error of a run: nil, or a kind ("get applications: %w", ...) with the
\* write error it wraps and the item errors errors.Join holds.
RunErr(kind, cause, joined) == [kind |-> kind, cause |-> cause, errs |-> joined]
NoErr == RunErr("nil", "", <<>>)

\* ------------------------------------------------ the initial state
Tasks == 1..MaxApps

\* What every specification starts from: nothing launched, nothing written.
InitRest ==
    /\ orgIDToName = << >>
    /\ launched = 0
    /\ errs = <<>>
    /\ ret = [path |-> "", err |-> NoErr]
    /\ received = [i \in Tasks |-> 0]
    /\ sem = 0
    /\ wg = 0
    /\ resultsChan = <<>>
    /\ closed = FALSE
    /\ closer = "none"
    /\ cancelled = FALSE
    /\ tpc = [i \in Tasks |-> "none"]
    /\ produced = [i \in Tasks |-> NoResult]
    /\ calls = {}
    /\ lateAdmit = {}
    /\ cnt = [p \in {"select", "check", "call", "info", "viol", "send", "exit", "done"} |-> 0]
    /\ nbuf = 0
    /\ tmp = Absent
    /\ wbuf = <<>>
    /\ wi = 0
    /\ werr = "nil"
    /\ killedAt = "none"

\* No call of a pure function is followed.
NoCall == arg = <<>> /\ result = <<>>

\* GenerateLatestPolicyReport is called; the target path holds an older file
\* (SpecWrite covers the absent destination too).
Init ==
    /\ InitRest
    /\ NoCall
    /\ pc = "start"
    /\ apps = <<>>
    /\ allViolationRows = <<>>
    /\ wpc = "idle"
    /\ wrows = <<>>
    /\ dest = OldFile
    /\ dest0 = dest

\* ------------------------------------------- the calling goroutine
\* Mutant of GetApplications: no test of len(apps) == 0.
GetApplicationsNoEmptyCheck ==
    /\ pc = "start"
    /\ \E out \in GetApplicationsOutcomes :
          IF out.err
          THEN /\ ret' = [path |-> "", err |-> RunErr("get applications", "", <<>>)]
               /\ pc' = "done"
               /\ apps' = apps
          ELSE /\ apps' = out.apps
               /\ pc' = "orgs"
               /\ ret' = ret
    /\ UNCHANGED <<orgIDToName, launched, allViolationRows, errs, received>>
    /\ UNCHANGED <<syncVars, cancelled, taskVars, semVars, fileVars, writeVars>>
    /\ UNCHANGED callVars

\* apps, err := s.client.GetApplications(ctx), and the two early returns.
GetApplications ==
    /\ pc = "start"
    /\ \E out \in GetApplicationsOutcomes :
          IF out.err
          THEN /\ ret' = [path |-> "", err |-> RunErr("get applications", "", <<>>)]
               /\ pc' = "done"
               /\ apps' = apps
          ELSE IF Len(out.apps) = 0
          THEN /\ ret' = [path |-> "", err |-> RunErr("no applications found", "", <<>>)]
               /\ pc' = "done"
               /\ apps' = out.apps
          ELSE /\ apps' = out.apps
               /\ pc' = "orgs"
               /\ ret' = ret
    /\ UNCHANGED <<orgIDToName, launched, allViolationRows, errs, received>>
    /\ UNCHANGED <<syncVars, cancelled, taskVars, semVars, fileVars, writeVars>>
    /\ UNCHANGED callVars

\* orgs, err := s.client.GetOrganizations(ctx); the map is built in one go.
GetOrganizations ==
    /\ pc = "orgs"
    /\ \E out \in GetOrganizationsOutcomes :
          IF out.err
          THEN /\ ret' = [path |-> "", err |-> RunErr("get organizations", "", <<>>)]
               /\ pc' = "done"
               /\ orgIDToName' = orgIDToName
          ELSE /\ orgIDToName' = BuildLookup(out.orgs)
               /\ pc' = "launch"
               /\ ret' = ret
    /\ UNCHANGED <<apps, launched, allViolationRows, errs, received>>
    /\ UNCHANGED <<syncVars, cancelled, taskVars, semVars, fileVars, writeVars>>
    /\ UNCHANGED callVars

\* Mutant of Launch: the goroutine is started without wg.Add(1).
LaunchNoAdd ==
    /\ pc = "launch"
    /\ launched < Len(apps)
    /\ launched' = launched + 1
    /\ tpc' = [tpc EXCEPT ![launched + 1] = "select"]
    /\ UNCHANGED <<pc, apps, orgIDToName, allViolationRows, errs, ret, received>>
    /\ UNCHANGED <<sem, wg, resultsChan, closed, closer, cancelled>>
    /\ UNCHANGED <<produced, calls, lateAdmit, semVars, fileVars, writeVars>>
    /\ UNCHANGED callVars

\* One iteration of "for _, a := range apps": wg.Add(1); go func() {...}().
Launch ==
    /\ pc = "launch"
    /\ launched < Len(apps)
    /\ wg' = wg + 1
    /\ launched' = launched + 1
    /\ tpc' = [tpc EXCEPT ![launched + 1] = "select"]
    /\ UNCHANGED <<pc, apps, orgIDToName, allViolationRows, errs, ret, received>>
    /\ UNCHANGED <<sem, resultsChan, closed, closer, cancelled>>
    /\ UNCHANGED <<produced, calls, lateAdmit, semVars, fileVars, writeVars>>
    /\ UNCHANGED callVars

\* Mutant of LaunchEnd: WriteCSV is called right after the launch loop.
LaunchEndSkipCollect ==
    /\ pc = "launch"
    /\ launched = Len(apps)
    /\ closer' = "wait"
    /\ pc' = "write"
    /\ wpc' = "abs"
    /\ wrows' = allViolationRows
    /\ dest0' = dest
    /\ UNCHANGED <<apps, orgIDToName, launched, allViolationRows, errs, ret, received>>
    /\ UNCHANGED <<sem, wg, resultsChan, closed, cancelled>>
    /\ UNCHANGED <<taskVars, semVars, fileVars>>
    /\ UNCHANGED <<wbuf, wi, werr, killedAt>>
    /\ UNCHANGED callVars

\* The loop is over: go func() { wg.Wait(); close(resultsChan) }().
LaunchEnd ==
    /\ pc = "launch"
    /\ launched = Len(apps)
    /\ closer' = "wait"
    /\ pc' = "collect"
    /\ UNCHANGED <<apps, orgIDToName, launched, allViolationRows, errs, ret, received>>
    /\ UNCHANGED <<sem, wg, resultsChan, closed, cancelled>>
    /\ UNCHANGED <<taskVars, semVars, fileVars, writeVars>>
    /\ UNCHANGED callVars

\* Mutant of Closer: the channel is closed without waiting for the tasks.
CloserNoWait ==
    /\ closer = "wait"
    /\ closed' = TRUE
    /\ closer' = "done"
    /\ UNCHANGED <<mainVars, sem, wg, resultsChan, cancelled>>
    /\ UNCHANGED <<taskVars, semVars, fileVars, writeVars>>
    /\ UNCHANGED callVars

\* wg.Wait() returns when the counter is zero; then close(resultsChan).
Closer ==
    /\ closer = "wait"
    /\ wg = 0
    /\ closed' = TRUE
    /\ closer' = "done"
    /\ UNCHANGED <<mainVars, sem, wg, resultsChan, cancelled>>
    /\ UNCHANGED <<taskVars, semVars, fileVars, writeVars>>
    /\ UNCHANGED callVars

\* Mutant of Collect: a failure result ends the loop, and the write follows.
CollectStopOnErr ==
    /\ pc = "collect"
    /\ resultsChan # <<>>
    /\ LET res == Head(resultsChan)
       IN  /\ resultsChan' = Tail(resultsChan)
           /\ received' = [received EXCEPT ![res.task] = @ + 1]
           /\ IF res.Err # NoItemErr
              THEN /\ errs' = Append(errs, res.Err)
                   /\ allViolationRows' = allViolationRows
                   /\ pc' = "write"
                   /\ wpc' = "abs"
                   /\ wrows' = allViolationRows
              ELSE /\ allViolationRows' = allViolationRows \o res.Rows
                   /\ errs' = errs
                   /\ UNCHANGED <<pc, wpc, wrows>>
    /\ UNCHANGED <<apps, orgIDToName, launched, ret>>
    /\ UNCHANGED <<sem, wg, closed, closer, cancelled>>
    /\ UNCHANGED <<taskVars, semVars, fileVars>>
    /\ UNCHANGED <<wbuf, wi, werr, dest0, killedAt>>
    /\ UNCHANGED callVars

\* Mutant of Collect: the rows of a result are put in front of the accumulator.
CollectPrepend ==
    /\ pc = "collect"
    /\ resultsChan # <<>>
    /\ LET res == Head(resultsChan)
       IN  /\ resultsChan' = Tail(resultsChan)
           /\ received' = [received EXCEPT ![res.task] = @ + 1]
           /\ IF res.Err # NoItemErr
              THEN /\ errs' = Append(errs, res.Err)
                   /\ allViolationRows' = allViolationRows
              ELSE /\ allViolationRows' = res.Rows \o allViolationRows
                   /\ errs' = errs
    /\ UNCHANGED <<pc, apps, orgIDToName, launched, ret>>
    /\ UNCHANGED <<sem, wg, closed, closer, cancelled>>
    /\ UNCHANGED <<taskVars, semVars, fileVars, writeVars>>
    /\ UNCHANGED callVars

\* One iteration of "for res := range resultsChan".
Collect ==
    /\ pc = "collect"
    /\ resultsChan # <<>>
    /\ LET res == Head(resultsChan)
       IN  /\ resultsChan' = Tail(resultsChan)
           /\ received' = [received EXCEPT ![res.task] = @ + 1]
           /\ IF res.Err # NoItemErr
              THEN /\ errs' = Append(errs, res.Err)
                   /\ allViolationRows' = allViolationRows
              ELSE /\ allViolationRows' = allViolationRows \o res.Rows
                   /\ errs' = errs
    /\ UNCHANGED <<pc, apps, orgIDToName, launched, ret>>
    /\ UNCHANGED <<sem, wg, closed, closer, cancelled>>
    /\ UNCHANGED <<taskVars, semVars, fileVars, writeVars>>
    /\ UNCHANGED callVars

\* Mutant of CollectEnd: a cancelled run returns ctx.Err() without writing.
CollectEndAbortOnCancel ==
    /\ pc = "collect"
    /\ resultsChan = <<>>
    /\ closed
    /\ IF cancelled
       THEN /\ pc' = "done"
            /\ ret' = [path |-> "", err |-> RunErr("context canceled", "", <<>>)]
            /\ UNCHANGED <<wpc, wrows, dest0>>
       ELSE /\ pc' = "write"
            /\ wpc' = "abs"
            /\ wrows' = allViolationRows
            /\ dest0' = dest
            /\ ret' = ret
    /\ UNCHANGED <<apps, orgIDToName, launched, allViolationRows, errs, received>>
    /\ UNCHANGED <<syncVars, cancelled, taskVars, semVars, fileVars>>
    /\ UNCHANGED <<wbuf, wi, werr, killedAt>>
    /\ UNCHANGED callVars

\* Mutant of CollectEnd: the loop ends as soon as the buffer is empty, closed
\* or not.
CollectEndNotClosed ==
    /\ pc = "collect"
    /\ resultsChan = <<>>
    /\ pc' = "write"
    /\ wpc' = "abs"
    /\ wrows' = allViolationRows
    /\ dest0' = dest
    /\ UNCHANGED <<apps, orgIDToName, launched, allViolationRows, errs, ret, received>>
    /\ UNCHANGED <<syncVars, cancelled, taskVars, semVars, fileVars>>
    /\ UNCHANGED <<wbuf, wi, werr, killedAt>>
    /\ UNCHANGED callVars

\* The range loop ends on a closed and drained channel; WriteCSV is called
\* with the target path and the accumulated rows.
CollectEnd ==
    /\ pc = "collect"
    /\ resultsChan = <<>>
    /\ closed
    /\ pc' = "write"
    /\ wpc' = "abs"
    /\ wrows' = allViolationRows
    /\ dest0' = dest
    /\ UNCHANGED <<apps, orgIDToName, launched, allViolationRows, errs, ret, received>>
    /\ UNCHANGED <<syncVars, cancelled, taskVars, semVars, fileVars>>
    /\ UNCHANGED <<wbuf, wi, werr, killedAt>>
    /\ UNCHANGED callVars

\* Mutant of Return: the item errors are looked at before the write error.
ReturnErrsFirst ==
    /\ pc = "write"
    /\ wpc = "ret"
    /\ pc' = "done"
    /\ ret' = IF Len(errs) > 0
              THEN [path |-> Target,
                    err |-> RunErr("encountered errors while fetching reports", "", errs)]
              ELSE IF werr # "nil"
              THEN [path |-> "", err |-> RunErr("write csv", werr, <<>>)]
              ELSE [path |-> Target, err |-> NoErr]
    /\ UNCHANGED <<apps, orgIDToName, launched, allViolationRows, errs, received>>
    /\ UNCHANGED <<syncVars, cancelled, taskVars, semVars, fileVars, writeVars>>
    /\ UNCHANGED callVars

\* WriteCSV has returned: the three returns that end the run.
Return ==
    /\ pc = "write"
    /\ wpc = "ret"
    /\ pc' = "done"
    /\ ret' = IF werr # "nil"
              THEN [path |-> "", err |-> RunErr("write csv", werr, <<>>)]
              ELSE IF Len(errs) > 0
              THEN [path |-> Target,
                    err |-> RunErr("encountered errors while fetching reports", "", errs)]
              ELSE [path |-> Target, err |-> NoErr]
    /\ UNCHANGED <<apps, orgIDToName, launched, allViolationRows, errs, received>>
    /\ UNCHANGED <<syncVars, cancelled, taskVars, semVars, fileVars, writeVars>>
    /\ UNCHANGED callVars

\* The caller's context is cancelled (a timeout, an abort) while the run is
\* under way.
Cancel ==
    /\ pc \notin {"done", "killed"}
    /\ ~cancelled
    /\ cancelled' = TRUE
    /\ UNCHANGED <<mainVars, syncVars, taskVars, semVars, fileVars, writeVars>>
    /\ UNCHANGED callVars

\* ------------------------------------------------------- the tasks
\* The goroutine launched for apps[i]; its positions:
\*   select  at the admission select          check  token held, at ctx.Err()
\*   call    past the check, about to call GetLatestReportInfo
\*   info    inside GetLatestReportInfo       viol   inside GetPolicyViolations
\*   send    at the select that sends         exit   returning, defers to run
\*   done    terminated

\* Mutant of SemReady: sem is made without a buffer, a send on it never ready.
SemNeverReady == FALSE

\* Mutant of SemReady: the capacity test off by one.
SemReadyOffByOne == sem <= SemCap

\* case sem <- struct{}{}: the send is ready while the channel is not full.
SemReady == sem < SemCap

\* Mutant of CtxDone: the tasks watch a context that is never cancelled.
CtxNeverDone == FALSE

\* case <-ctx.Done(), and ctx.Err() != nil.
CtxDone == cancelled

\* The admission select, case sem <- struct{}{}: the token is taken and its
\* release deferred.
TaskAcquire(i) ==
    /\ tpc[i] = "select"
    /\ SemReady
    /\ sem' = sem + 1
    /\ tpc' = [tpc EXCEPT ![i] = "check"]
    /\ lateAdmit' = IF cancelled THEN lateAdmit \cup {i} ELSE lateAdmit
    /\ UNCHANGED <<mainVars, wg, resultsChan, closed, closer, cancelled>>
    /\ UNCHANGED <<produced, calls, semVars, fileVars, writeVars>>
    /\ UNCHANGED callVars

\* The admission select, case <-ctx.Done(): return; the deferred wg.Done() runs.
TaskAbandon(i) ==
    /\ tpc[i] = "select"
    /\ CtxDone
    /\ wg' = wg - 1
    /\ tpc' = [tpc EXCEPT ![i] = "done"]
    /\ lateAdmit' = lateAdmit \cup {i}
    /\ UNCHANGED <<mainVars, sem, resultsChan, closed, closer, cancelled>>
    /\ UNCHANGED <<produced, calls, semVars, fileVars, writeVars>>
    /\ UNCHANGED callVars

\* Mutant of TaskCheck: no test of ctx.Err() after the admission.
TaskCheckNoCtxErr(i) ==
    /\ tpc[i] = "check"
    /\ tpc' = [tpc EXCEPT ![i] = "call"]
    /\ UNCHANGED <<mainVars, syncVars, cancelled>>
    /\ UNCHANGED <<produced, calls, lateAdmit, semVars, fileVars, writeVars>>
    /\ UNCHANGED callVars

\* if ctx.Err() != nil { return }: the task reads the context once and goes
\* on to the call if it is not cancelled at that moment.
TaskCheck(i) ==
    /\ tpc[i] = "check"
    /\ tpc' = [tpc EXCEPT ![i] = IF CtxDone THEN "exit" ELSE "call"]
    /\ UNCHANGED <<mainVars, syncVars, cancelled>>
    /\ UNCHANGED <<produced, calls, lateAdmit, semVars, fileVars, writeVars>>
    /\ UNCHANGED callVars

\* reportInfo, err := s.client.GetLatestReportInfo(ctx, app.ID) begins, the
\* logger built; the context is not read again in between.
TaskCall(i) ==
    /\ tpc[i] = "call"
    /\ tpc' = [tpc EXCEPT ![i] = "info"]
    /\ calls' = calls \cup {<<i, "GetLatestReportInfo">>}
    /\ UNCHANGED <<mainVars, syncVars, cancelled>>
    /\ UNCHANGED <<produced, lateAdmit, semVars, fileVars, writeVars>>
    /\ UNCHANGED callVars

\* GetLatestReportInfo returns out: an error result, an empty result (no
\* report, blank URL), a malformed-URL result, or the call of
\* GetPolicyViolations.
TaskInfoOn(i, out) ==
    /\ tpc[i] = "info"
    /\ LET cut == Cut(out.ReportHTMLURL)
          IN  IF out.err
              THEN /\ produced' = [produced EXCEPT ![i] =
                          AppReportResult(i, <<>>, ItemErr(apps[i], "get latest report info"))]
                   /\ tpc' = [tpc EXCEPT ![i] = "send"]
                   /\ calls' = calls
              ELSE IF out.isNil \/ TrimSpaceIsEmpty(out.ReportHTMLURL)
              THEN /\ produced' = [produced EXCEPT ![i] = AppReportResult(i, <<>>, NoItemErr)]
                   /\ tpc' = [tpc EXCEPT ![i] = "send"]
                   /\ calls' = calls
              ELSE IF ~cut.found \/ cut.after = <<>>
              THEN /\ produced' = [produced EXCEPT ![i] =
                          AppReportResult(i, <<>>, ItemErr(apps[i], "malformed report URL"))]
                   /\ tpc' = [tpc EXCEPT ![i] = "send"]
                   /\ calls' = calls
              ELSE /\ tpc' = [tpc EXCEPT ![i] = "viol"]
                   /\ calls' = calls \cup {<<i, "GetPolicyViolations">>}
                   /\ produced' = produced
    /\ UNCHANGED <<mainVars, syncVars, cancelled>>
    /\ UNCHANGED <<lateAdmit, semVars, fileVars, writeVars>>

TaskInfo(i) ==
    /\ \E out \in GetLatestReportInfoOutcomes : TaskInfoOn(i, out)
    /\ UNCHANGED callVars

\* GetPolicyViolations returns: an error result, or the rows.
TaskViolations(i) ==
    /\ tpc[i] = "viol"
    /\ \E out \in GetPolicyViolationsOutcomes(apps[i].PublicID, OrgName(apps[i])) :
          produced' = [produced EXCEPT ![i] =
              IF out.err
              THEN AppReportResult(i, <<>>, ItemErr(apps[i], "get policy violations"))
              ELSE AppReportResult(i, out.rows, NoItemErr)]
    /\ tpc' = [tpc EXCEPT ![i] = "send"]
    /\ UNCHANGED <<mainVars, syncVars, cancelled>>
    /\ UNCHANGED <<calls, lateAdmit, semVars, fileVars, writeVars>>
    /\ UNCHANGED callVars

\* case resultsChan <- AppReportResult{...}: ready while the buffer, of
\* capacity len(apps), is not full.
TaskSend(i) ==
    /\ tpc[i] = "send"
    /\ Len(resultsChan) < Len(apps)
    /\ resultsChan' = Append(resultsChan, produced[i])
    /\ tpc' = [tpc EXCEPT ![i] = "exit"]
    /\ UNCHANGED <<mainVars, sem, wg, closed, closer, cancelled>>
    /\ UNCHANGED <<produced, calls, lateAdmit, semVars, fileVars, writeVars>>
    /\ UNCHANGED callVars

\* case <-ctx.Done(): of the same select: the result is not sent.
TaskDrop(i) ==
    /\ tpc[i] = "send"
    /\ CtxDone
    /\ tpc' = [tpc EXCEPT ![i] = "exit"]
    /\ UNCHANGED <<mainVars, syncVars, cancelled>>
    /\ UNCHANGED <<produced, calls, lateAdmit, semVars, fileVars, writeVars>>
    /\ UNCHANGED callVars

\* Mutant of TaskExit: <-sem is not deferred, it follows the send of a
\* success result only.
TaskExitLeak(i) ==
    /\ tpc[i] = "exit"
    /\ sem' = IF produced[i] # NoResult /\ produced[i].Err = NoItemErr THEN sem - 1 ELSE sem
    /\ wg' = wg - 1
    /\ tpc' = [tpc EXCEPT ![i] = "done"]
    /\ UNCHANGED <<mainVars, resultsChan, closed, closer, cancelled>>
    /\ UNCHANGED <<produced, calls, lateAdmit, semVars, fileVars, writeVars>>
    /\ UNCHANGED callVars

\* The task returns holding a token: the deferred <-sem, then wg.Done().
TaskExit(i) ==
    /\ tpc[i] = "exit"
    /\ sem' = sem - 1
    /\ wg' = wg - 1
    /\ tpc' = [tpc EXCEPT ![i] = "done"]
    /\ UNCHANGED <<mainVars, resultsChan, closed, closer, cancelled>>
    /\ UNCHANGED <<produced, calls, lateAdmit, semVars, fileVars, writeVars>>
    /\ UNCHANGED callVars

Task(i) ==
    \/ TaskAcquire(i)
    \/ TaskAbandon(i)
    \/ TaskCheck(i)
    \/ TaskCall(i)
    \/ TaskInfo(i)
    \/ TaskViolations(i)
    \/ TaskSend(i)
    \/ TaskDrop(i)
    \/ TaskExit(i)

\* ------------------------------------------------------- WriteCSV
\* Its positions name the step about to be made: abs, mkdir, create, header,
\* rows, flush, sync, close, remove, rename, chmod; cleanup is the deferred
\* tmp.Close(); os.Remove(tmpPath), registered once the temp file exists;
\* ret: it has returned werr.

csvHeaders ==
    <<"No.", "Application", "Organization", "Policy", "Format", "Component",
      "Threat", "Policy/Action", "Constraint Name", "Condition", "CVE">>

\* strconv.Itoa
Itoa(n) == ToString(n)

\* The record written for row r at index i (0-based in the code: i + 1).
Record(i, r) ==
    <<Itoa(i), r.Application, r.Organization, r.Policy, r.Format, r.Component,
      Itoa(r.Threat), r.PolicyAction, r.ConstraintName, r.Condition, r.CVE>>

\* The content of the complete file for rows.
Serialize(rows) == <<csvHeaders>> \o [i \in 1..Len(rows) |-> Record(i, rows[i])]

\* A step of WriteCSV that fails returns its error; the deferred cleanup runs
\* if the temp file has been created.
\* Mutant of WFail: no deferred function runs on an error return.
WFailNoDefer(cause, deferred) ==
    /\ werr' = cause
    /\ wpc' = "ret"

WFail(cause, deferred) ==
    /\ werr' = cause
    /\ wpc' = IF deferred THEN "cleanup" ELSE "ret"

\* absPath, err := filepath.Abs(destPath)
WAbs ==
    /\ wpc = "abs"
    /\ \E ok \in BOOLEAN :
          IF ok THEN wpc' = "mkdir" /\ werr' = werr
          ELSE WFail("get absolute path", FALSE)
    /\ UNCHANGED <<mainVars, syncVars, cancelled, taskVars, semVars, fileVars>>
    /\ UNCHANGED <<wrows, wbuf, wi, dest0, killedAt>>
    /\ UNCHANGED callVars

\* os.MkdirAll(dir, 0o755)
WMkdir ==
    /\ wpc = "mkdir"
    /\ \E ok \in BOOLEAN :
          IF ok THEN wpc' = "create" /\ werr' = werr
          ELSE WFail("prepare output dir", FALSE)
    /\ UNCHANGED <<mainVars, syncVars, cancelled, taskVars, semVars, fileVars>>
    /\ UNCHANGED <<wrows, wbuf, wi, dest0, killedAt>>
    /\ UNCHANGED callVars

\* tmp, err := os.CreateTemp(dir, ".tmp-*.csv"); defer close and remove.
WCreate ==
    /\ wpc = "create"
    /\ \E ok \in BOOLEAN :
          IF ok THEN wpc' = "header" /\ werr' = werr /\ tmp' = File(<<>>)
          ELSE WFail("create temp file", FALSE) /\ tmp' = tmp
    /\ UNCHANGED <<mainVars, syncVars, cancelled, taskVars, semVars, dest>>
    /\ UNCHANGED <<wrows, wbuf, wi, dest0, killedAt>>
    /\ UNCHANGED callVars

\* w.Write(record) of the csv.Writer: the record goes to its buffer, which
\* writes itself out to the file when it is full; the write may fail.
WWrite(record, next, cause) ==
    \E ok \in BOOLEAN, spill \in BOOLEAN :
        IF ~ok THEN WFail(cause, TRUE) /\ UNCHANGED <<wbuf, tmp>>
        ELSE /\ wpc' = next
             /\ werr' = werr
             /\ IF spill
                THEN /\ tmp' = File(tmp.content \o Append(wbuf, record))
                     /\ wbuf' = <<>>
                ELSE /\ wbuf' = Append(wbuf, record)
                     /\ tmp' = tmp

\* w.Write(csvHeaders())
WHeader ==
    /\ wpc = "header"
    /\ WWrite(csvHeaders, "rows", "write header")
    /\ UNCHANGED <<mainVars, syncVars, cancelled, taskVars, semVars, dest>>
    /\ UNCHANGED <<wrows, wi, dest0, killedAt>>
    /\ UNCHANGED callVars

\* Mutant of WRow: the number written is the loop index i, not i + 1.
WRowZeroBased ==
    /\ wpc = "rows"
    /\ wi < Len(wrows)
    /\ WWrite(Record(wi, wrows[wi + 1]), "rows", "write row")
    /\ wi' = wi + 1
    /\ UNCHANGED <<mainVars, syncVars, cancelled, taskVars, semVars, dest>>
    /\ UNCHANGED <<wrows, dest0, killedAt>>
    /\ UNCHANGED callVars

\* One iteration of "for i, r := range rows".
WRow ==
    /\ wpc = "rows"
    /\ wi < Len(wrows)
    /\ WWrite(Record(wi + 1, wrows[wi + 1]), "rows", "write row")
    /\ wi' = wi + 1
    /\ UNCHANGED <<mainVars, syncVars, cancelled, taskVars, semVars, dest>>
    /\ UNCHANGED <<wrows, dest0, killedAt>>
    /\ UNCHANGED callVars

\* w.Flush(); w.Error(): the buffer is written out to the temp file.
WFlush ==
    /\ wpc = "rows"
    /\ wi = Len(wrows)
    /\ \E ok \in BOOLEAN :
          IF ok THEN /\ wpc' = "sync"
                     /\ werr' = werr
                     /\ tmp' = File(tmp.content \o wbuf)
                     /\ wbuf' = <<>>
          ELSE WFail("flush csv", TRUE) /\ UNCHANGED <<wbuf, tmp>>
    /\ UNCHANGED <<mainVars, syncVars, cancelled, taskVars, semVars, dest>>
    /\ UNCHANGED <<wrows, wi, dest0, killedAt>>
    /\ UNCHANGED callVars

\* Mutant of WSync: a failed sync is reported under the cause of the flush.
WSyncFlushCause ==
    /\ wpc = "sync"
    /\ \E ok \in BOOLEAN :
          IF ok THEN wpc' = "close" /\ werr' = werr
          ELSE WFail("flush csv", TRUE)
    /\ UNCHANGED <<mainVars, syncVars, cancelled, taskVars, semVars, fileVars>>
    /\ UNCHANGED <<wrows, wbuf, wi, dest0, killedAt>>
    /\ UNCHANGED callVars

\* tmp.Sync()
WSync ==
    /\ wpc = "sync"
    /\ \E ok \in BOOLEAN :
          IF ok THEN wpc' = "close" /\ werr' = werr
          ELSE WFail("fsync temp", TRUE)
    /\ UNCHANGED <<mainVars, syncVars, cancelled, taskVars, semVars, fileVars>>
    /\ UNCHANGED <<wrows, wbuf, wi, dest0, killedAt>>
    /\ UNCHANGED callVars

\* tmp.Close()
WClose ==
    /\ wpc = "close"
    /\ \E ok \in BOOLEAN :
          IF ok THEN wpc' = "remove" /\ werr' = werr
          ELSE WFail("close temp", TRUE)
    /\ UNCHANGED <<mainVars, syncVars, cancelled, taskVars, semVars, fileVars>>
    /\ UNCHANGED <<wrows, wbuf, wi, dest0, killedAt>>
    /\ UNCHANGED callVars

\* _ = os.Remove(absPath): a file at the destination is removed.
WRemove ==
    /\ wpc = "remove"
    /\ dest' = Absent
    /\ wpc' = "rename"
    /\ UNCHANGED <<mainVars, syncVars, cancelled, taskVars, semVars, tmp>>
    /\ UNCHANGED <<wrows, wbuf, wi, werr, dest0, killedAt>>
    /\ UNCHANGED callVars

\* os.Rename(tmpPath, absPath): the temp file becomes the destination.
WRename ==
    /\ wpc = "rename"
    /\ \E ok \in BOOLEAN :
          IF ok THEN /\ wpc' = "chmod"
                     /\ werr' = werr
                     /\ dest' = tmp
                     /\ tmp' = Absent
          ELSE WFail("atomic rename", TRUE) /\ UNCHANGED <<dest, tmp>>
    /\ UNCHANGED <<mainVars, syncVars, cancelled, taskVars, semVars>>
    /\ UNCHANGED <<wrows, wbuf, wi, dest0, killedAt>>
    /\ UNCHANGED callVars

\* os.Chmod(absPath, 0o644), then return nil.
WChmod ==
    /\ wpc = "chmod"
    /\ \E ok \in BOOLEAN :
          IF ok THEN wpc' = "cleanup" /\ werr' = "nil"
          ELSE WFail("chmod", TRUE)
    /\ UNCHANGED <<mainVars, syncVars, cancelled, taskVars, semVars, fileVars>>
    /\ UNCHANGED <<wrows, wbuf, wi, dest0, killedAt>>
    /\ UNCHANGED callVars

\* The deferred function: _ = tmp.Close(); _ = os.Remove(tmpPath).
WCleanup ==
    /\ wpc = "cleanup"
    /\ tmp' = Absent
    /\ wpc' = "ret"
    /\ UNCHANGED <<mainVars, syncVars, cancelled, taskVars, semVars, dest>>
    /\ UNCHANGED <<wrows, wbuf, wi, werr, dest0, killedAt>>
    /\ UNCHANGED callVars

WriteCSV ==
    \/ WAbs
    \/ WMkdir
    \/ WCreate
    \/ WHeader
    \/ WRow
    \/ WFlush
    \/ WSync
    \/ WClose
    \/ WRemove
    \/ WRename
    \/ WChmod
    \/ WCleanup

\* The process is killed inside WriteCSV: nothing of it runs any more, no
\* deferred function either; the files stay as they are.
Kill ==
    /\ wpc \notin {"idle", "ret", "killed"}
    /\ killedAt' = wpc
    /\ wpc' = "killed"
    /\ pc' = "killed"
    /\ UNCHANGED <<apps, orgIDToName, launched, allViolationRows, errs, ret, received>>
    /\ UNCHANGED <<syncVars, cancelled, taskVars, semVars, fileVars>>
    /\ UNCHANGED <<wrows, wbuf, wi, werr, dest0>>
    /\ UNCHANGED callVars

\* ------------------------------------------------ the specifications
Next ==
    \/ GetApplications
    \/ GetOrganizations
    \/ Launch
    \/ LaunchEnd
    \/ Closer
    \/ Collect
    \/ CollectEnd
    \/ Return
    \/ Cancel
    \/ \E i \in Tasks : Task(i)
    \/ WriteCSV

Spec == Init /\ [][Next]_vars

\* WriteCSV alone: called with any rows, over any destination.
RowsWrite ==
    UNION {[1..n -> {Row("101", "Acme", 1), Row("102", "org-2", 1)}] : n \in 0..MaxRowsWrite}

InitWrite ==
    /\ InitRest
    /\ NoCall
    /\ pc = "write"
    /\ apps = <<>>
    /\ wpc = "abs"
    /\ wrows \in RowsWrite
    /\ allViolationRows = wrows
    /\ dest \in {Absent, OldFile}
    /\ dest0 = dest

NextWrite ==
    \/ WriteCSV
    \/ Kill
    \/ Return

SpecWrite == InitWrite /\ [][NextWrite]_vars

\* ----------------------------------------- SpecSem: the tasks counted
\* The tasks run the same closure and differ in their application only, so
\* the admission discipline is followed by counting the tasks at each
\* position: cnt[p] tasks are at p. The steps are those of Task(i); what a
\* fetch returns decides only whether GetPolicyViolations is called.
Positions == {"select", "check", "call", "info", "viol", "send", "exit", "done"}

Move(from, to) == cnt' = [cnt EXCEPT ![from] = @ - 1, ![to] = @ + 1]

\* wg.Add(1); go func() {...}() for the next application.
SemLaunch ==
    /\ pc = "launch"
    /\ launched < Len(apps)
    /\ launched' = launched + 1
    /\ wg' = wg + 1
    /\ cnt' = [cnt EXCEPT !["select"] = @ + 1]
    /\ UNCHANGED <<pc, apps, orgIDToName, allViolationRows, errs, ret, received>>
    /\ UNCHANGED <<sem, resultsChan, closed, closer, cancelled>>
    /\ UNCHANGED <<taskVars, nbuf, fileVars, writeVars>>
    /\ UNCHANGED callVars

\* case sem <- struct{}{}
SemAcquire ==
    /\ cnt["select"] > 0
    /\ SemReady
    /\ sem' = sem + 1
    /\ Move("select", "check")
    /\ UNCHANGED <<mainVars, wg, resultsChan, closed, closer, cancelled>>
    /\ UNCHANGED <<taskVars, nbuf, fileVars, writeVars>>
    /\ UNCHANGED callVars

\* case <-ctx.Done(): return
SemAbandon ==
    /\ cnt["select"] > 0
    /\ CtxDone
    /\ wg' = wg - 1
    /\ Move("select", "done")
    /\ UNCHANGED <<mainVars, sem, resultsChan, closed, closer, cancelled>>
    /\ UNCHANGED <<taskVars, nbuf, fileVars, writeVars>>
    /\ UNCHANGED callVars

\* if ctx.Err() != nil { return }
SemCheck ==
    /\ cnt["check"] > 0
    /\ IF CtxDone THEN Move("check", "exit") ELSE Move("check", "call")
    /\ UNCHANGED <<mainVars, syncVars, cancelled>>
    /\ UNCHANGED <<taskVars, nbuf, fileVars, writeVars>>
    /\ UNCHANGED callVars

\* GetLatestReportInfo is called.
SemCall ==
    /\ cnt["call"] > 0
    /\ Move("call", "info")
    /\ UNCHANGED <<mainVars, syncVars, cancelled>>
    /\ UNCHANGED <<taskVars, nbuf, fileVars, writeVars>>
    /\ UNCHANGED callVars

\* GetLatestReportInfo returns: a result to send, or GetPolicyViolations.
SemInfo ==
    /\ cnt["info"] > 0
    /\ \E to \in {"send", "viol"} : Move("info", to)
    /\ UNCHANGED <<mainVars, syncVars, cancelled>>
    /\ UNCHANGED <<taskVars, nbuf, fileVars, writeVars>>
    /\ UNCHANGED callVars

\* GetPolicyViolations returns.
SemViolations ==
    /\ cnt["viol"] > 0
    /\ Move("viol", "send")
    /\ UNCHANGED <<mainVars, syncVars, cancelled>>
    /\ UNCHANGED <<taskVars, nbuf, fileVars, writeVars>>
    /\ UNCHANGED callVars

\* case resultsChan <- AppReportResult{...}
\* Mutant of SemSend: the buffer has the capacity of the semaphore.
SemSendCapSem ==
    /\ cnt["send"] > 0
    /\ nbuf < SemCap
    /\ nbuf' = nbuf + 1
    /\ Move("send", "exit")
    /\ UNCHANGED <<mainVars, syncVars, cancelled>>
    /\ UNCHANGED <<taskVars, fileVars, writeVars>>
    /\ UNCHANGED callVars

SemSend ==
    /\ cnt["send"] > 0
    /\ nbuf < Len(apps)
    /\ nbuf' = nbuf + 1
    /\ Move("send", "exit")
    /\ UNCHANGED <<mainVars, syncVars, cancelled>>
    /\ UNCHANGED <<taskVars, fileVars, writeVars>>
    /\ UNCHANGED callVars

\* case <-ctx.Done(): of the sending select
SemDrop ==
    /\ cnt["send"] > 0
    /\ CtxDone
    /\ Move("send", "exit")
    /\ UNCHANGED <<mainVars, syncVars, cancelled>>
    /\ UNCHANGED <<taskVars, nbuf, fileVars, writeVars>>
    /\ UNCHANGED callVars

\* The deferred <-sem, then wg.Done().
SemExit ==
    /\ cnt["exit"] > 0
    /\ sem' = sem - 1
    /\ wg' = wg - 1
    /\ Move("exit", "done")
    /\ UNCHANGED <<mainVars, resultsChan, closed, closer, cancelled>>
    /\ UNCHANGED <<taskVars, nbuf, fileVars, writeVars>>
    /\ UNCHANGED callVars

\* The dispatch phase is entered with NumAppsSem applications listed.
InitSem ==
    /\ InitRest
    /\ NoCall
    /\ pc = "launch"
    /\ apps = AppList(NumAppsSem)
    /\ allViolationRows = <<>>
    /\ wpc = "idle"
    /\ wrows = <<>>
    /\ dest = OldFile
    /\ dest0 = dest

NextSem ==
    \/ SemLaunch
    \/ LaunchEnd
    \/ Closer
    \/ Cancel
    \/ SemAcquire
    \/ SemAbandon
    \/ SemCheck
    \/ SemCall
    \/ SemInfo
    \/ SemViolations
    \/ SemSend
    \/ SemDrop
    \/ SemExit

SpecSem == InitSem /\ [][NextSem]_vars

\* ------------------------------ SpecLive: the counted run to its return
\* SpecSem with the collector, the write and the return, under the fairness
\* needed to ask whether the run returns. What the results hold is not
\* followed here: the collector counts them, and WriteCSV is handed any rows.

\* One iteration of "for res := range resultsChan".
SemCollect ==
    /\ pc = "collect"
    /\ nbuf > 0
    /\ nbuf' = nbuf - 1
    /\ UNCHANGED <<mainVars, syncVars, cancelled>>
    /\ UNCHANGED <<taskVars, cnt, fileVars, writeVars>>
    /\ UNCHANGED callVars

\* The range loop ends on the closed and drained channel; WriteCSV is called.
SemCollectEnd ==
    /\ pc = "collect"
    /\ nbuf = 0
    /\ closed
    /\ pc' = "write"
    /\ wpc' = "abs"
    /\ \E rows \in RowsWrite : allViolationRows' = rows /\ wrows' = rows
    /\ dest0' = dest
    /\ UNCHANGED <<apps, orgIDToName, launched, errs, ret, received>>
    /\ UNCHANGED <<syncVars, cancelled, taskVars, semVars, fileVars>>
    /\ UNCHANGED <<wbuf, wi, werr, killedAt>>
    /\ UNCHANGED callVars

\* The run SpecLive follows has one application more than the semaphore
\* admits: the smallest run in which a task has to wait for a token.
NumAppsLive == SemCap + 1

InitLive ==
    /\ InitRest
    /\ NoCall
    /\ pc = "launch"
    /\ apps = AppList(NumAppsLive)
    /\ allViolationRows = <<>>
    /\ wpc = "idle"
    /\ wrows = <<>>
    /\ dest = OldFile
    /\ dest0 = dest

\* The steps of the program: every goroutine of the run, not the caller's
\* cancellation.
ProgLive ==
    \/ SemLaunch
    \/ LaunchEnd
    \/ Closer
    \/ SemAcquire
    \/ SemAbandon
    \/ SemCheck
    \/ SemCall
    \/ SemInfo
    \/ SemViolations
    \/ SemSend
    \/ SemDrop
    \/ SemExit
    \/ SemCollect
    \/ SemCollectEnd
    \/ WriteCSV
    \/ Return

NextLive ==
    \/ ProgLive
    \/ Cancel

\* The Go scheduler runs a goroutine that can run, a fetch call returns, a
\* file operation returns: while the program can take a step it takes one.
SpecLive == InitLive /\ [][NextLive]_vars /\ WF_vars(ProgLive)

\* ------------------------------------- the pure functions of the client
\* Nothing of a run is under way while one call of a function is followed.
InitIdle ==
    /\ InitRest
    /\ pc = "idle"
    /\ apps = <<>>
    /\ allViolationRows = <<>>
    /\ wpc = "idle"
    /\ wrows = <<>>
    /\ dest = Absent
    /\ dest0 = dest

NotCalled == [called |-> FALSE]

\* The function returns; nothing else changes.
Returns(value) ==
    /\ ~result.called
    /\ result' = value
    /\ arg' = arg
    /\ UNCHANGED <<mainVars, syncVars, cancelled, taskVars, semVars, fileVars, writeVars>>

\* SpecParse: parseReportRows on any report of up to MaxComponents
\* components, MaxViolations violations each, MaxConstraints constraints each.
ComponentShapes == UNION {[1..n -> 0..MaxConstraints] : n \in 0..MaxViolations}
ReportShapes == UNION {[1..n -> ComponentShapes] : n \in 0..MaxComponents}

InitParse ==
    /\ InitIdle
    /\ \E shape \in ReportShapes, app \in {1, 2} :
          arg = [rawReport |-> PolicyViolationReport(shape),
                 appPublicID |-> Application(app).PublicID,
                 orgName |-> IF app = 1 THEN "Acme" ELSE Application(app).OrganizationID]
    /\ result = NotCalled

ParseCall ==
    Returns([called |-> TRUE,
             rows |-> parseReportRows(arg.rawReport, arg.appPublicID, arg.orgName)])

SpecParse == InitParse /\ [][ParseCall]_vars

\* SpecClient: NewClient on a server URL, a user name and a password. The
\* strings are sequences of tokens; a server URL is made of spaces, letters
\* and colons, with or without one final "/".
UrlBodies == UNION {[1..n -> {" ", "a", ":"}] : n \in 0..MaxServerUrlLen}
ServerURLs == UrlBodies \cup {Append(u, "/") : u \in UrlBodies}
Usernames == {<<>>, <<" ">>, <<"u">>}
Passwords == {<<>>, <<"p">>}

\* strings.TrimSuffix(s, "/")
TrimSuffix(s) ==
    IF s # <<>> /\ s[Len(s)] = "/" THEN SubSeq(s, 1, Len(s) - 1) ELSE s

\* url.Parse(u) returns an error, for u of spaces, letters and colons: the
\* colon comes first (missing protocol scheme), or no scheme is read (a space
\* comes before any colon) and the first path segment holds a colon.
UrlParseFails(u) ==
    LET other == {k \in 1..Len(u) : u[k] # "a"}
    IN  IF other = {} THEN FALSE
        ELSE LET k == CHOOSE x \in other : \A y \in other : x <= y
             IN  IF u[k] = ":" THEN k = 1
                 ELSE \E j \in 1..Len(u) : u[j] = ":"

\* What NewClient returns: no client and an error, or a client and nil.
NoClient(err) == [called |-> TRUE, client |-> FALSE, err |-> err]

\* Mutant of NewClient: the user name is checked before the server URL.
NewClientUserFirst(serverURL, username, password) ==
    IF username = <<>> THEN NoClient("username is required")
    ELSE IF TrimSpaceIsEmpty(serverURL) THEN NoClient("serverURL is required")
    ELSE IF password = <<>> THEN NoClient("password is required")
    ELSE IF UrlParseFails(TrimSuffix(serverURL)) THEN NoClient("invalid baseURL")
    ELSE [called |-> TRUE, client |-> TRUE, err |-> "nil"]

NewClient(serverURL, username, password) ==
    IF TrimSpaceIsEmpty(serverURL) THEN NoClient("serverURL is required")
    ELSE IF username = <<>> THEN NoClient("username is required")
    ELSE IF password = <<>> THEN NoClient("password is required")
    ELSE IF UrlParseFails(TrimSuffix(serverURL)) THEN NoClient("invalid baseURL")
    ELSE [called |-> TRUE, client |-> TRUE, err |-> "nil"]

InitClient ==
    /\ InitIdle
    /\ \E u \in ServerURLs, user \in Usernames, pass \in Passwords :
          arg = [serverURL |-> u, username |-> user, password |-> pass]
    /\ result = NotCalled

NewClientCall ==
    Returns(NewClient(arg.serverURL, arg.username, arg.password))

SpecClient == InitClient /\ [][NewClientCall]_vars

\* --------------------------- SpecTask: one task from its report info on
\* The arguments of s.client.GetPolicyViolations(ctx, app.PublicID, reportID,
\* orgName) for an application whose report info is out.
GetPolicyViolationsArgs(app, out) ==
    [called |-> TRUE,
     publicID |-> app.PublicID,
     reportID |-> Cut(out.ReportHTMLURL).after,
     orgName |-> OrgName(app)]

\* What a task other than the followed one has delivered: a failure result
\* of GetLatestReportInfo, or one row of GetPolicyViolations.
OtherResult(j, kind) ==
    IF kind = "fail"
    THEN AppReportResult(j, <<>>, ItemErr(Application(j), "get latest report info"))
    ELSE AppReportResult(j, parseReportRows(PolicyViolationReport(<< <<1>> >>),
                                Application(j).PublicID, OrgName(Application(j))),
                         NoItemErr)

\* A run in its collection phase: GetLatestReportInfo is about to return
\* arg.out to the task arg.task, which holds a token; every other task has
\* finished and its result has been received.
InitTask ==
    /\ \E t \in Tasks, out \in GetLatestReportInfoOutcomes : arg = [task |-> t, out |-> out]
    /\ result = NotCalled
    /\ pc = "collect"
    /\ apps = AppList(MaxApps)
    /\ \E l \in OrgLists : orgIDToName = BuildLookup(l)
    /\ launched = MaxApps
    /\ \E kinds \in [Tasks \ {arg.task} -> {"fail", "rows"}] :
          produced = [j \in Tasks |->
                        IF j = arg.task THEN NoResult ELSE OtherResult(j, kinds[j])]
    /\ allViolationRows = Concat([j \in Tasks |->
                              IF produced[j].Err = NoItemErr THEN produced[j].Rows ELSE <<>>])
    /\ errs = Concat([j \in Tasks |->
                  IF produced[j].Err = NoItemErr THEN <<>> ELSE <<produced[j].Err>>])
    /\ received = [j \in Tasks |-> IF j = arg.task THEN 0 ELSE 1]
    /\ tpc = [j \in Tasks |-> IF j = arg.task THEN "info" ELSE "done"]
    /\ calls = {<<j, "GetLatestReportInfo">> : j \in Tasks}
                  \cup {<<j, "GetPolicyViolations">> :
                          j \in {k \in Tasks : produced[k].Rows # <<>>}}
    /\ ret = [path |-> "", err |-> NoErr]
    /\ sem = 1
    /\ wg = 1
    /\ resultsChan = <<>>
    /\ closed = FALSE
    /\ closer = "wait"
    /\ cancelled = FALSE
    /\ lateAdmit = {}
    /\ cnt = [p \in {"select", "check", "call", "info", "viol", "send", "exit", "done"} |-> 0]
    /\ nbuf = 0
    /\ wpc = "idle"
    /\ wrows = <<>>
    /\ dest = OldFile
    /\ dest0 = dest
    /\ tmp = Absent
    /\ wbuf = <<>>
    /\ wi = 0
    /\ werr = "nil"
    /\ killedAt = "none"

\* GetLatestReportInfo returns arg.out to the followed task; when the task
\* goes on to GetPolicyViolations, result holds the arguments of that call.
TaskInfoFollowed ==
    /\ TaskInfoOn(arg.task, arg.out)
    /\ arg' = arg
    /\ result' = IF tpc'[arg.task] = "viol"
                 THEN GetPolicyViolationsArgs(apps[arg.task], arg.out)
                 ELSE result

NextTask ==
    \/ TaskInfoFollowed
    \/ TaskViolations(arg.task)
    \/ TaskSend(arg.task)
    \/ TaskDrop(arg.task)
    \/ TaskExit(arg.task)
    \/ Cancel
    \/ Closer
    \/ Collect
    \/ CollectEnd

SpecTask == InitTask /\ [][NextTask]_vars

\* ======================================================== properties

\* ---- helpers for stating them
Apps == 1..Len(apps)
\* Results of task i buffered in the channel.
InChan(i) == Cardinality({k \in 1..Len(resultsChan) : resultsChan[k].task = i})
\* Task i has built a result, and it is a failure.
Produced(i) == produced[i] # NoResult
Failed(i) == produced[i].Err # NoItemErr
\* The rows of application i in the success accumulator, in order.
RowsOf(i) == SelectSeq(allViolationRows, LAMBDA r : r.Application = apps[i].PublicID)
\* The entries of a list of item errors that name application i's internal ID.
ErrsOf(list, i) == {k \in 1..Len(list) : list[k].app = apps[i].ID}
\* The collector loop has ended and WriteCSV has been called.
Collected == pc \in {"write", "done"} /\ wpc # "idle"
\* Task i has made a fetch call.
Fetched(i) == \E f \in {"GetLatestReportInfo", "GetPolicyViolations"} : <<i, f>> \in calls

\* ---- C1 (SpecSem): at every moment at most 10 tasks hold a token and are
\* inside a fetch call (GetLatestReportInfo or GetPolicyViolations), however
\* many applications there are and however the tasks interleave.
C1_ConcurrencyBound ==
    /\ cnt["info"] + cnt["viol"] <= 10
    /\ cnt["check"] + cnt["call"] + cnt["info"] + cnt["viol"] + cnt["send"] + cnt["exit"] = sem
    /\ sem <= 10

\* Ten tasks are inside a fetch call while another waits for a token.
C1_Witness ==
    /\ cnt["info"] + cnt["viol"] = 10
    /\ cnt["viol"] > 0
    /\ cnt["select"] > 0

\* ---- C2: while the context is not cancelled, a task that has passed its
\* send has exactly one result in the channel or with the collector, a task
\* that has not has none; and once the collector loop has ended every
\* application has built exactly one result and the collector has received
\* each exactly once: as many results as applications.
C2_EveryAppOneResult ==
    ~cancelled =>
        /\ \A i \in Apps :
              InChan(i) + received[i] = IF tpc[i] \in {"exit", "done"} THEN 1 ELSE 0
        /\ Collected =>
              /\ closed
              /\ \A i \in Apps : Produced(i) /\ received[i] = 1 /\ InChan(i) = 0

\* A run without cancellation has ended with a success, and a failure or an
\* empty result, all received.
C2_Witness ==
    /\ pc = "done"
    /\ ~cancelled
    /\ Len(apps) >= 2
    /\ \A i \in Apps : received[i] = 1
    /\ \E i \in Apps : produced[i].Rows # <<>>
    /\ \E i \in Apps : produced[i].Rows = <<>>

\* ---- C3: item failures are isolated. The collector loop ends only on the
\* closed and drained channel, whatever it received; each failure result it
\* received left exactly one entry in errs and no rows, each other result it
\* received left exactly its rows in allViolationRows; in a run that is not
\* cancelled that covers every application, failing or not (any subset may
\* fail, all of them too); and a run that launched its tasks does not return
\* without having invoked WriteCSV.
C3_FailuresIsolated ==
    /\ Collected =>
          /\ closed /\ resultsChan = <<>>
          /\ \A i \in Apps :
                received[i] = 1 =>
                    IF Failed(i)
                    THEN Cardinality(ErrsOf(errs, i)) = 1 /\ RowsOf(i) = <<>>
                    ELSE RowsOf(i) = produced[i].Rows /\ ErrsOf(errs, i) = {}
          /\ ~cancelled => \A i \in Apps : received[i] = 1
    /\ (pc = "done" /\ closer # "none") => wpc = "ret"

\* One application failed, another's rows were written, and the run returned
\* the path.
C3_Witness ==
    /\ pc = "done"
    /\ ~cancelled
    /\ ret.path = Target
    /\ \E i, j \in Apps :
          /\ Failed(i) /\ Len(errs) = 1
          /\ produced[j].Rows # <<>> /\ allViolationRows = produced[j].Rows
          /\ dest = File(Serialize(produced[j].Rows))

\* ---- C4 (SpecWrite, the claim as stated): during and after a call of
\* WriteCSV the destination holds the old file untouched or the complete new
\* file.
C4_OldOrCompleteNew ==
    wpc # "idle" => dest \in {dest0, File(Serialize(wrows))}

\* ---- C5 (SpecWrite, the claim as stated): killed after the temp file was
\* created and before the rename has happened, WriteCSV leaves the
\* destination as it was before the call.
C5_KilledBeforeRename ==
    (wpc = "killed" /\ killedAt \in {"header", "rows", "sync", "close", "remove", "rename"})
        => dest = dest0

\* ---- C6: when WriteCSV succeeds the run returns the target path; the error
\* is nil exactly when no failure result was received, and otherwise the one
\* combined error, holding exactly one entry per failure result received,
\* each naming the internal ID of its application.
C6_PartialSuccess ==
    (pc = "done" /\ wpc = "ret" /\ werr = "nil") =>
        LET failures == {i \in Apps : received[i] > 0 /\ Failed(i)}
        IN  /\ ret.path = Target
            /\ (ret.err = NoErr) <=> (failures = {})
            /\ failures # {} =>
                  /\ ret.err.kind = "encountered errors while fetching reports"
                  /\ Len(ret.err.errs) = Cardinality(failures)
                  /\ \A i \in failures :
                        /\ Cardinality(ErrsOf(ret.err.errs, i)) = 1
                        /\ \E k \in ErrsOf(ret.err.errs, i) : ret.err.errs[k] = produced[i].Err

\* The run returned the path with a combined error of two failures.
C6_Witness ==
    /\ pc = "done"
    /\ ret.path = Target
    /\ Len(ret.err.errs) = 2
    /\ ret.err.errs[1].app # ret.err.errs[2].app

\* ---- C7: listing, lookup and write errors are run-fatal. Only a non-empty
\* listing lets the run go on, and only a built lookup lets it launch; a run
\* that returned a listing or lookup error returned the empty path, launched
\* no task, made no fetch call and never invoked WriteCSV; a run whose
\* WriteCSV returned an error returned the empty path and that error,
\* whatever failures were collected.
C7_RunFatal ==
    /\ pc \notin {"start", "done"} => Len(apps) > 0
    /\ (pc = "done" /\ wpc = "idle") =>
          /\ ret.path = ""
          /\ ret.err.kind \in {"get applications", "no applications found", "get organizations"}
          /\ launched = 0 /\ wg = 0 /\ closer = "none"
          /\ \A i \in Tasks : tpc[i] = "none"
          /\ calls = {}
          /\ dest = dest0 /\ tmp = Absent
    /\ (pc = "done" /\ wpc = "ret" /\ werr # "nil") =>
          /\ ret.path = ""
          /\ ret.err = RunErr("write csv", werr, <<>>)

\* WriteCSV failed after item failures were collected: no path is returned.
C7_Witness ==
    /\ pc = "done"
    /\ werr # "nil"
    /\ Len(errs) > 0
    /\ ret.path = ""

\* ---- C8: an empty listing is a hard failure. Once GetApplications has
\* returned without applications the run has returned the empty path and an
\* error, no task is launched, WriteCSV is not invoked and the file system is
\* as it was.
C8_EmptyListing ==
    (pc # "start" /\ apps = <<>>) =>
        /\ pc = "done"
        /\ ret.path = "" /\ ret.err # NoErr
        /\ launched = 0 /\ closer = "none"
        /\ \A i \in Tasks : tpc[i] = "none"
        /\ wpc = "idle"
        /\ dest = dest0 /\ tmp = Absent

\* The run ended on the empty listing.
C8_Witness ==
    /\ pc = "done"
    /\ ret = [path |-> "", err |-> RunErr("no applications found", "", <<>>)]

\* ---- C9 (the claim as stated): in every run, cancelled or not, the result
\* a task has built is, once the task is past its send, in the channel or
\* with the collector exactly once.
C9_DeliveredExactlyOnce ==
    \A i \in Apps :
        (Produced(i) /\ tpc[i] \in {"exit", "done"}) => InChan(i) + received[i] = 1

\* ---- C10: a task that finds the context cancelled at its admission select
\* makes no fetch call and builds and sends no result: its application is in
\* neither accumulator.
C10_CancelledBeforeAdmission ==
    \A i \in lateAdmit :
        /\ ~Fetched(i)
        /\ tpc[i] \in {"check", "exit", "done"}
        /\ ~Produced(i)
        /\ InChan(i) = 0 /\ received[i] = 0
        /\ RowsOf(i) = <<>> /\ ErrsOf(errs, i) = {}

\* A run was cancelled before one task was admitted and after another had
\* delivered its rows; it has returned.
C10_Witness ==
    /\ pc = "done"
    /\ ret.path = Target
    /\ \E i \in lateAdmit : tpc[i] = "done"
    /\ \E j \in Apps \ lateAdmit : received[j] = 1 /\ RowsOf(j) # <<>>

\* ---- C11 (the claim as stated): once the context is cancelled no call of
\* GetLatestReportInfo begins: a task that has not begun it does not begin it.
C11_NoCallBeginsAfterCancel ==
    [][cancelled =>
          \A i \in Tasks :
              <<i, "GetLatestReportInfo">> \in calls' => <<i, "GetLatestReportInfo">> \in calls]_vars

\* ---- C11 (amended): once the context is cancelled, a task that has not yet
\* passed the ctx.Err() test that follows its admission never gets past it,
\* so it begins no fetch; only a task that had passed the test before the
\* cancellation may still begin GetLatestReportInfo; and a task that is past
\* the test is not cut short: it goes on through its fetch calls, in their
\* order, to a built result.
C11_NoFetchOnceCancelSeen ==
    [][cancelled =>
          \A i \in Tasks :
              /\ tpc[i] \in {"none", "select", "check"} =>
                     /\ tpc'[i] \in {"none", "select", "check", "exit", "done"}
                     /\ (<<i, "GetLatestReportInfo">> \in calls') = (<<i, "GetLatestReportInfo">> \in calls)
              /\ tpc[i] = "call" => tpc'[i] \in {"call", "info"}
              /\ tpc[i] = "info" => tpc'[i] \in {"info", "viol", "send"}
              /\ tpc[i] = "viol" => tpc'[i] \in {"viol", "send"}
              /\ (tpc[i] # "send" /\ tpc'[i] = "send") => produced'[i] # NoResult]_vars

\* The context is cancelled; a task admitted before that found it cancelled
\* at its test and is leaving without a fetch, while another is inside
\* GetPolicyViolations.
C11_Witness ==
    /\ cancelled
    /\ \E i \in Apps \ lateAdmit : tpc[i] = "exit" /\ ~Produced(i) /\ ~Fetched(i)
    /\ \E j \in Apps : tpc[j] = "viol"

\* ---- C12: cancellation does not abort the run. In a cancelled run the
\* collector loop still ends only on the closed and drained channel, WriteCSV
\* is invoked with exactly the rows accumulated, which hold the rows of every
\* success result received (none, if none was), and when WriteCSV succeeds
\* the run returns the target path, the file there holding those rows.
C12_CancelKeepsResults ==
    cancelled =>
        /\ Collected =>
              /\ closed /\ resultsChan = <<>>
              /\ wrows = allViolationRows
              /\ \A i \in Apps :
                    (received[i] = 1 /\ ~Failed(i)) => RowsOf(i) = produced[i].Rows
        /\ (pc = "done" /\ closer # "none") =>
              /\ wpc = "ret"
              /\ werr = "nil" =>
                    /\ ret.path = Target
                    /\ dest = File(Serialize(allViolationRows))

\* A run cancelled during dispatch, after one task had delivered its rows
\* and before another made any fetch call, wrote those rows and returned the
\* target path without an error.
C12_Witness ==
    /\ pc = "done"
    /\ cancelled
    /\ ret = [path |-> Target, err |-> NoErr]
    /\ \E i, j \in Apps :
          /\ tpc[i] = "done" /\ ~Fetched(i)
          /\ received[j] = 1 /\ produced[j].Rows # <<>>
          /\ dest = File(Serialize(produced[j].Rows))

\* This call's file is at the destination: the rename has been made.
NewArtifact == dest.exists /\ dest # OldFile

\* ---- C13 (SpecWrite): in the file WriteCSV puts at the destination for n
\* rows, the record after the header at position i (1 <= i <= n) starts with
\* the number i, in decimal, and goes on with the fields of the i-th row of
\* the argument: the numbers are 1..n in the order of the rows, without gap
\* or duplicate.
C13_RowNumbers ==
    NewArtifact =>
        /\ Len(dest.content) = Len(wrows) + 1
        /\ \A i \in 1..Len(wrows) :
              /\ dest.content[i + 1][1] = ToString(i)
              /\ dest.content[i + 1][2] = wrows[i].Application
              /\ dest.content[i + 1][3] = wrows[i].Organization
        /\ {dest.content[i + 1][1] : i \in 1..Len(wrows)} = {ToString(k) : k \in 1..Len(wrows)}

\* WriteCSV has returned nil for two rows of two applications, numbered 1
\* and 2 in the file.
C13_Witness ==
    /\ wpc = "ret" /\ werr = "nil"
    /\ Len(wrows) >= 2
    /\ wrows[1].Application # wrows[2].Application
    /\ dest.content[2][1] = "1" /\ dest.content[3][1] = "2"
    /\ dest.content[3][2] = wrows[2].Application

\* ---- C14 (the claim as stated): a run that has returned the empty path
\* and an error has left no new file at the target path.
C14_HardFailureNoOutput ==
    (pc = "done" /\ ret.path = "" /\ ret.err # NoErr) => ~NewArtifact

\* ---- C15 (SpecLive): every run returns, cancelled or not, with more
\* applications than the semaphore admits: the tasks, the closing goroutine
\* and the collector loop do not block one another for ever.
C15_RunReturns == <>(pc = "done")

\* A run of more than ten applications has returned without cancellation,
\* every task terminated, the channel closed and drained.
C15_Witness ==
    /\ pc = "done"
    /\ ~cancelled
    /\ Len(apps) > SemCap
    /\ cnt["done"] = Len(apps)
    /\ closed /\ nbuf = 0

\* The columns of the generated file as the README's "Output Format" lists
\* them.
ReadmeColumns ==
    <<"No.", "Application", "Organization", "Policy", "Component", "Threat",
      "Policy/Action", "Constraint Name", "Condition", "CVE">>

\* ---- C16 (SpecWrite, the claim as stated): the first record of the file
\* WriteCSV puts at the destination is the ten columns of the README, in
\* their order, and every record after it has as many fields as the header.
C16_HeaderIsReadmeColumns ==
    NewArtifact =>
        /\ dest.content[1] = ReadmeColumns
        /\ \A i \in 2..Len(dest.content) : Len(dest.content[i]) = Len(dest.content[1])

C18_NewClientValidation ==
    result.called =>
        LET blank == \A k \in 1..Len(arg.serverURL) : arg.serverURL[k] = " "
            noUser == Len(arg.username) = 0
            noPass == Len(arg.password) = 0
            noParse == UrlParseFails(TrimSuffix(arg.serverURL))
        IN  /\ ~result.client <=> (blank \/ noUser \/ noPass \/ noParse)
            /\ result.client <=> (result.err = "nil")
            /\ blank => result.err = "serverURL is required"
            /\ (~blank /\ noUser) => result.err = "username is required"
            /\ (~blank /\ ~noUser /\ noPass) => result.err = "password is required"
            /\ (~blank /\ ~noUser /\ ~noPass /\ noParse) => result.err = "invalid baseURL"

\* NewClient was called with a blank server URL and neither user name nor
\* password: the error is the server URL's.
C18_Witness ==
    /\ result.called
    /\ arg = [serverURL |-> <<" ">>, username |-> <<>>, password |-> <<>>]
    /\ ~result.client
    /\ result.err = "serverURL is required"

\* Tasks between the acquisition of a token and their exit.
Holders == {i \in Tasks : tpc[i] \in {"check", "call", "info", "viol", "send", "exit"}}

\* ---- C19: in every state the tokens in sem are as many as the tasks
\* between acquisition and exit, whatever way each took to its exit (fetch
\* error, no report, malformed URL, success, cancellation seen after the
\* acquisition): each holder gave its token back exactly once when it
\* terminated; and once every task has terminated sem holds no token.
C19_TokenReleasedOnce ==
    /\ sem = Cardinality(Holders)
    /\ (launched = Len(apps) /\ \A i \in Apps : tpc[i] = "done") => sem = 0

\* One token is held, by a task that found the context cancelled right after
\* acquiring it and is about to exit; a task that failed has terminated and
\* its token is back.
C19_Witness ==
    /\ sem = 1
    /\ \E i \in Apps : tpc[i] = "exit" /\ ~Produced(i)
    /\ \E j \in Apps : tpc[j] = "done" /\ Failed(j)

\* ---- C20: the results channel is closed once, by the closing goroutine,
\* and only when every application's task has been launched and has
\* terminated, whether it sent a result or left before starting; once it is
\* closed it stays closed and nothing is sent on it any more.
C20_ClosedOnceAfterAllTasks ==
    [][/\ closed' =>
             /\ launched' = Len(apps') /\ wg' = 0
             /\ \A i \in 1..Len(apps') : tpc'[i] = "done"
       /\ closed' # closed => (~closed /\ closer = "wait" /\ closer' = "done")
       /\ closer = "done" => closer' = "done"
       /\ closed => (closed' /\ Len(resultsChan') <= Len(resultsChan))]_vars

\* The channel is closed with a result still buffered, after one task sent
\* it and another left at its admission select without starting.
C20_Witness ==
    /\ closed
    /\ pc = "collect"
    /\ \E i \in lateAdmit : tpc[i] = "done" /\ ~Fetched(i)
    /\ \E j \in Apps : InChan(j) = 1

\* ------------------------------------------------ C21
\* C21: WriteCSV is invoked, and a result is returned, only after every
\* launched task has terminated, the results channel is closed and every
\* buffered result has been folded into the accumulators: once WriteCSV has
\* been called every task is done, the wait group is at zero, the channel is
\* closed and empty, and the rows handed to the writer are the accumulator,
\* holding the rows of every success result that was received; a run that
\* has returned has no task under way and, if it launched any, has written.
C21_WriteAfterAllFolded ==
    /\ wpc # "idle" =>
           /\ launched = Len(apps)
           /\ \A i \in Apps : tpc[i] = "done"
           /\ wg = 0
           /\ closed
           /\ resultsChan = <<>>
           /\ wrows = allViolationRows
           /\ Len(errs) = Cardinality({i \in Apps : received[i] = 1 /\ Failed(i)})
           /\ \A i \in Apps :
                  SelectSeq(wrows, LAMBDA r : r.Application = apps[i].PublicID)
                      = IF received[i] = 1 /\ ~Failed(i) THEN produced[i].Rows ELSE <<>>
    /\ pc = "done" =>
           /\ \A i \in Tasks : tpc[i] \in {"none", "done"}
           /\ resultsChan = <<>>
           /\ launched > 0 => wpc = "ret"

\* WriteCSV has just been called with the rows of two applications, the
\* second's received first.
C21_Witness ==
    /\ wpc = "abs"
    /\ Len(apps) = 2
    /\ Len(produced[1].Rows) >= 1
    /\ wrows = produced[2].Rows \o produced[1].Rows
    /\ wrows[1].Application = apps[2].PublicID

\* ------------------------------------------------ C22
\* C22: no task ever blocks when sending its result: while no result is
\* received at all (the slowest collector), the number of buffered results is
\* at most the capacity len(apps), it is at most the number of tasks that
\* are past their send (a task sends at most once), and whenever a task is at
\* its send the send is ready.
C22_SendNeverBlocks ==
    /\ nbuf <= Len(apps)
    /\ nbuf <= cnt["exit"] + cnt["done"]
    /\ cnt["send"] > 0 => ENABLED SemSend

\* A task is at its send while the results of all the other applications,
\* one more than cap(sem) admits at a time, sit in the buffer.
C22_Witness ==
    /\ cnt["send"] = 1
    /\ nbuf = Len(apps) - 1
    /\ nbuf >= SemCap
    /\ ~cancelled

\* ------------------------------------------------ C23
\* C23: when a step of WriteCSV before the rename fails (creating the
\* directory or the temp file, writing the header or a row, flushing,
\* syncing, closing), WriteCSV returns that error, the temp file no longer
\* exists and the destination holds what it held before the call.
PreRenameCauses ==
    {"prepare output dir", "create temp file", "write header", "write row",
     "flush csv", "fsync temp", "close temp"}

PhaseRank(p) ==
    CASE p = "start"   -> 1
      [] p = "orgs"    -> 2
      [] p = "launch"  -> 3
      [] p = "collect" -> 4
      [] p = "write"   -> 5
      [] p = "done"    -> 6

\* C24: the phases of a run occur in the order listing, lookup construction,
\* dispatch, collection, write, done, each at most once and never going back:
\* every step keeps the phase, moves to the next one, or returns; the listing
\* phase is left by the one call of GetApplications and the lookup phase by
\* the one call of GetOrganizations, before any task is launched; tasks are
\* launched in the dispatch phase only, results are received in the
\* collection phase only, and WriteCSV is called once, on the step that ends
\* the collection.
C24_PhaseOrder ==
    [][/\ PhaseRank(pc') >= PhaseRank(pc)
       /\ pc' # pc => pc' = "done" \/ PhaseRank(pc') = PhaseRank(pc) + 1
       /\ (pc = "start" /\ pc' # pc) <=> GetApplications
       /\ apps' # apps => pc = "start"
       /\ (pc = "orgs" /\ pc' # pc) <=> GetOrganizations
       /\ orgIDToName' # orgIDToName => pc = "orgs"
       /\ pc' \in {"start", "orgs"} =>
              launched' = 0 /\ \A i \in Tasks : tpc'[i] = "none"
       /\ launched' # launched => pc = "launch" /\ pc' = "launch"
       /\ received' # received => pc = "collect" /\ pc' = "collect"
       /\ (wpc = "idle" /\ wpc' # "idle") =>
              /\ pc = "collect" /\ pc' = "write" /\ wpc' = "abs"
              /\ closed /\ resultsChan = <<>>
       /\ wpc # "idle" => wpc' # "idle" /\ (wpc' = "abs" => wpc = "abs")
       /\ pc = "done" => pc' = "done" /\ ret' = ret]_vars

\* A run that went through every phase and returned the path.
C24_Witness ==
    /\ pc = "done"
    /\ ret = [path |-> Target, err |-> NoErr]
    /\ orgIDToName # << >>
    /\ launched = 2
    /\ \A i \in Apps : received[i] = 1
    /\ wpc = "ret"

\* ------------------------------------------------ C25
\* The rows of one application sit next to each other in the sequence.
Contiguous(rows) ==
    \A a, b, c \in 1..Len(rows) :
        (a < b /\ b < c /\ rows[a].Application = rows[c].Application)
            => rows[b].Application = rows[a].Application

\* C25: the row sequence passed to the writer is the concatenation, in the
\* order the collector received them, of the Rows of the success results:
\* each receive appends the Rows of a success result to the accumulator and
\* leaves it alone for a failure result, nothing else changes the
\* accumulator, the writer is called with the accumulator and its rows do
\* not change afterwards; the rows of one application stay contiguous and
\* in the order the fetch returned them.
C25_RowsInArrivalOrder ==
    [][/\ Len(resultsChan') < Len(resultsChan) =>
              LET res == Head(resultsChan)
              IN  /\ res.Err = NoItemErr => allViolationRows' = allViolationRows \o res.Rows
                  /\ res.Err # NoItemErr => allViolationRows' = allViolationRows
       /\ allViolationRows' # allViolationRows => Len(resultsChan') < Len(resultsChan)
       /\ (wpc = "idle" /\ wpc' # "idle") => wrows' = allViolationRows
       /\ wpc # "idle" => wrows' = wrows
       /\ Contiguous(allViolationRows')
       /\ \A i \in 1..Len(apps') :
              SelectSeq(allViolationRows', LAMBDA r : r.Application = apps'[i].PublicID)
                  \in {<<>>, produced'[i].Rows}]_vars

\* The writer got the two rows of the second application, received first,
\* followed by the rows of the first.
C25_Witness ==
    /\ wpc # "idle"
    /\ Len(apps) = 2
    /\ Len(produced[2].Rows) = 2
    /\ Len(produced[1].Rows) >= 1
    /\ wrows = produced[2].Rows \o produced[1].Rows

\* ------------------------------------------------ C27
\* The steps of WriteCSV in their order, and the cause each reports.
WRank(p) ==
    CASE p = "abs"     -> 1
      [] p = "mkdir"   -> 2
      [] p = "create"  -> 3
      [] p = "header"  -> 4
      [] p = "rows"    -> 5
      [] p = "sync"    -> 6
      [] p = "close"   -> 7
      [] p = "remove"  -> 8
      [] p = "rename"  -> 9
      [] p = "chmod"   -> 10
      [] p = "cleanup" -> 11
      [] p = "ret"     -> 12
      [] OTHER         -> 13

StepCause ==
    [mkdir   |-> "prepare output dir",
     create  |-> "create temp file",
     header  |-> "write header",
     row     |-> "write row",
     flush   |-> "flush csv",
     sync    |-> "fsync temp",
     rename  |-> "atomic rename"]

\* The step WriteCSV is at: the position "rows" is the write of the next row
\* while rows are left, and the flush after the last.
StepAt ==
    IF wpc = "rows" THEN (IF wi < Len(wrows) THEN "row" ELSE "flush") ELSE wpc

\* C27 (SpecWrite): WriteCSV reports the failure of each step (creating the
\* directory, creating the temp file, writing, flushing, syncing, renaming)
\* under a cause of its own; it attempts each step at most once, every step
\* moving on to a later position or to the next row; and it returns at the
\* first failing step: once it has an error it executes no later step, only
\* the deferred cleanup, and the error and the destination stay as they are.
C27_StepFailures ==
    [][/\ \A p, q \in DOMAIN StepCause : p # q => StepCause[p] # StepCause[q]
       /\ (werr = "nil" /\ werr' # "nil" /\ StepAt \in DOMAIN StepCause) =>
              /\ werr' = StepCause[StepAt]
              /\ wpc' \in {"cleanup", "ret"}
              /\ dest' = dest
       /\ werr # "nil" =>
              /\ werr' = werr
              /\ wpc' \in {"cleanup", "ret", "killed"}
              /\ dest' = dest
              /\ wi' = wi
       /\ wpc' # wpc => WRank(wpc') > WRank(wpc)
       /\ wpc' = wpc =>
              \/ wpc = "ret"
              \/ wpc = "rows" /\ wi < Len(wrows) /\ wi' = wi + 1 /\ werr' = "nil"]_vars

\* WriteCSV has returned the error of the rename, after writing, flushing
\* and syncing two rows.
C27_Witness ==
    /\ wpc = "ret"
    /\ werr = "atomic rename"
    /\ Len(wrows) = 2
    /\ wi = 2
    /\ tmp = Absent

\* ------------------------------------------------ C28
\* C28: the organization value a task passes to GetPolicyViolations, which
\* every row the call returns carries, is the name the lookup maps the
\* application's organization ID to when the ID is in the lookup and the ID
\* itself when it is not; the lookup is built by the GetOrganizations step,
\* before any task is launched, and no step changes it afterwards.
C28_OrgNameOrID ==
    [][/\ \A i \in 1..Len(apps') : \A k \in 1..Len(produced'[i].Rows) :
              LET id == apps'[i].OrganizationID
              IN  /\ id \in DOMAIN orgIDToName' =>
                         produced'[i].Rows[k].Organization = orgIDToName'[id]
                  /\ id \notin DOMAIN orgIDToName' =>
                         produced'[i].Rows[k].Organization = id
       /\ orgIDToName' # orgIDToName =>
              /\ GetOrganizations
              /\ launched = 0
              /\ \A i \in Tasks : tpc[i] = "none"
       /\ launched > 0 => orgIDToName' = orgIDToName]_vars

\* Two applications got rows: the first under the name the lookup has for
\* its organization, the second, whose organization the lookup lacks, under
\* the organization ID.
C28_Witness ==
    /\ Len(apps) = 2
    /\ DOMAIN orgIDToName = {"org-1"}
    /\ Len(produced[1].Rows) >= 1
    /\ Len(produced[2].Rows) >= 1
    /\ produced[1].Rows[1].Organization = "Acme"
    /\ produced[2].Rows[1].Organization = "org-2"
    /\ apps[2].OrganizationID = "org-2"

\* ------------------------------------------------ C26
\* The followed task of SpecTask and the report URL it is given.
Followed == arg.task
FollowedURL == arg.out.ReportHTMLURL

\* GetLatestReportInfo answers without error and with no report: no info, or
\* a URL of white space only.
NoReport ==
    /\ ~arg.out.err
    /\ arg.out.isNil \/ \A k \in 1..Len(FollowedURL) : FollowedURL[k] = " "

\* C26 (SpecTask): an application with no report (no info and no error, or a
\* blank report URL) yields the result with no rows and no error, which is
\* what its task sends; GetPolicyViolations is not called for it, and no step
\* of the run, the receive of that result included, changes the success
\* accumulator or the failure accumulator.
C26_NoReportNoRows ==
    [][NoReport =>
          /\ tpc'[Followed] # "info" =>
                 produced'[Followed] = AppReportResult(Followed, <<>>, NoItemErr)
          /\ tpc'[Followed] # "viol"
          /\ <<Followed, "GetPolicyViolations">> \notin calls'
          /\ result' = NotCalled
          /\ Len(resultsChan') > Len(resultsChan) =>
                 resultsChan' = Append(resultsChan, AppReportResult(Followed, <<>>, NoItemErr))
          /\ allViolationRows' = allViolationRows
          /\ errs' = errs]_vars

\* The empty result of an application whose report URL is one space has been
\* received; the accumulator holds the row another application delivered.
C26_Witness ==
    /\ ~arg.out.err /\ ~arg.out.isNil
    /\ FollowedURL = <<" ">>
    /\ received[Followed] = 1
    /\ produced[Followed] = AppReportResult(Followed, <<>>, NoItemErr)
    /\ Len(allViolationRows) = 1
    /\ errs = <<>>

\* ------------------------------------------------ C29
\* GetLatestReportInfo answers with a report whose URL is not blank.
HasReportURL ==
    /\ ~arg.out.err
    /\ ~arg.out.isNil
    /\ \E k \in 1..Len(FollowedURL) : FollowedURL[k] # " "

\* Where the separator "/report/" occurs in the URL.
Separators == {k \in 1..Len(FollowedURL) : FollowedURL[k] = "/report/"}

\* C29 (SpecTask): when the report URL is not blank but holds no "/report/",
\* or nothing after its first "/report/", the task builds the failure result
\* "malformed report URL" and does not call GetPolicyViolations; otherwise it
\* calls GetPolicyViolations with, as report ID, all that follows the first
\* "/report/" of the URL.
C29_ReportIDAfterFirstSeparator ==
    (HasReportURL /\ tpc[Followed] # "info") =>
        IF Separators = {} \/ \A k \in Separators : k = Len(FollowedURL)
        THEN /\ produced[Followed] =
                    AppReportResult(Followed, <<>>, ItemErr(apps[Followed], "malformed report URL"))
             /\ <<Followed, "GetPolicyViolations">> \notin calls
             /\ result = NotCalled
        ELSE /\ <<Followed, "GetPolicyViolations">> \in calls
             /\ result.called
             /\ result.publicID = apps[Followed].PublicID
             /\ \E k \in Separators :
                    /\ \A j \in Separators : k <= j
                    /\ Len(result.reportID) = Len(FollowedURL) - k
                    /\ \A j \in 1..Len(result.reportID) :
                           result.reportID[j] = FollowedURL[k + j]

\* The URL holds "/report/" twice: the task has called GetPolicyViolations
\* with the second one as report ID, and its result has been received.
C29_Witness ==
    /\ HasReportURL
    /\ FollowedURL = <<"/report/", "/report/">>
    /\ result.called
    /\ result.reportID = <<"/report/">>
    /\ received[Followed] = 1

====
